---- MODULE Spec2Model ----
(***************************************************************************)
(* A model of AIp_gui.py: the randomized story-graph generator             *)
(* (AdaptiveStoryGraph), the heuristic advisor (SimpleAIAdvisor), the BFS  *)
(* layout (hierarchy_layout) and the player-state handlers of StoryApp.    *)
(*                                                                         *)
(* Numbers with a fractional part are kept in thousandths (1.1 is 1100).   *)
(* Narrative text is not modelled: no handler branches on it; what is kept *)
(* of get_text is that it raises KeyError for a node that is not in G.     *)
(***************************************************************************)
EXTENDS Integers, Sequences, FiniteSets, TLC

VARIABLES
    \* ---- AdaptiveStoryGraph.generate_story, run step by step
    gen_pc,          \* "root" | "tree" | "links" | "done" | "idle"
    gen_G,           \* the graph under construction (self.G)
    gen_branches,    \* num_branches, line 41
    gen_i,           \* branches created so far (loop variable i, line 42)
    gen_seed,        \* which stream of the random source feeds random_attributes
    gen_links,       \* the number of cross-link attempts drawn at line 67
    gen_attempts,    \* attempts made so far (loop of line 67)
    gen_tree,        \* self.G as it was when the loop of line 67 began
    \* ---- StoryApp
    story_graph,     \* self.story_graph.G
    story_data,      \* self.story_data
    history_stack,   \* self.history_stack
    story_file,      \* story_progress.json
    current_choices, \* self.current_choices (<<>> while the attribute is unset)
    buttons,         \* the node ids of the choice buttons in choice_frame
    last,            \* the handler that ran last and what it reported
    entered,         \* per node, the next_node calls into it since the
                     \* Player State was created (history of the run)
    same_graph,      \* the graph is the one the Player State was created under
    \* ---- the round trip: k transitions, then k + 1 backtracks
    rt_phase,        \* "forward" | "back" | "idle"
    rt_trail,        \* the nodes current_node went through, "start" first
    rt_backs,        \* go_back calls made
    rt_mark,         \* story_data as it was when the last transition returned
    \* ---- SimpleAIAdvisor, called on its own
    adv_pc,          \* "ready" | "done" | "scored" | "idle"
    adv_graph,       \* self.graph
    adv_data,        \* self.story_data
    adv_choices,     \* the argument `choices`
    adv_noise,       \* the draws of line 175, one per choice
    adv_ranked,      \* what rank_choices returned
    adv_result,      \* what recommend returned
    \* ---- hierarchy_layout, one iteration of its while loop per step
    lay_pc,          \* "loop" | "done" | "idle"
    lay_G,           \* the argument G
    lay_root,        \* the argument root
    lay_levels,      \* the dict `levels`
    lay_order,       \* the keys of `levels` in insertion order
    lay_queue,       \* the deque `queue`
    lay_pos,         \* the dict `pos` returned
    lay_iters        \* iterations of the while loop made

genVars == <<gen_pc, gen_G, gen_branches, gen_i, gen_seed, gen_links,
             gen_attempts, gen_tree>>

appVars == <<story_graph, story_data, history_stack, story_file, current_choices,
             buttons, last, entered, same_graph>>

rtVars == <<rt_phase, rt_trail, rt_backs, rt_mark>>

advVars == <<adv_pc, adv_graph, adv_data, adv_choices, adv_noise, adv_ranked, adv_result>>

layVars == <<lay_pc, lay_G, lay_root, lay_levels, lay_order, lay_queue, lay_pos, lay_iters>>

vars == <<genVars, appVars, rtVars, advVars, layVars>>

-----------------------------------------------------------------------------
(* Bounds of the exploration *)

\* random_attributes draws are explored along this many streams of the
\* random source
NumSeeds == 1
\* nodes beyond the mandatory ones (one path per branch) a generated tree may
\* have: further paths and endings
GenExtraBound == 1
\* random.sample(nodes, 2) is explored over the first LinkSampleBound nodes
LinkSampleBound == 3
\* outcomes in which more than LinkAddBound attempts add an edge are not explored
LinkAddBound == 1
\* next_node calls explored per Player State
MaxTransitions == 3
\* the advisor is called on the Player States that walks of at most
\* AdvWalkBound transitions from "start" leave
AdvWalkBound == 2
\* observed_reward values the scoring is compared over
ObsBound == 2
\* hierarchy_layout is run on every directed graph of LayoutNodes nodes and at
\* most LayoutMaxEdges edges (self-loops and cycles included)
LayoutNodes == 3
LayoutMaxEdges == 4

(* Program constants *)
MinBranches == 3
MaxBranches == 6
MinPaths == 1
MaxPaths == 3
MinLinks == 3
MaxLinks == 6

-----------------------------------------------------------------------------
(* Helpers *)

Range(s) == {s[k] : k \in 1..Len(s)}

Min(a, b) == IF a < b THEN a ELSE b

-----------------------------------------------------------------------------
(* networkx.DiGraph: nodes in insertion order, per-node successor lists in  *)
(* edge insertion order, per-node attribute triple.                         *)

EmptyGraph ==
    [nodes |-> <<>>, adj |-> [n \in {} |-> <<>>], attributes |-> [n \in {} |-> 0]]

NodeSet(G) == Range(G.nodes)

has_edge(G, a, b) == a \in DOMAIN G.adj /\ b \in Range(G.adj[a])

add_node(G, n, attrs) ==
    IF n \in NodeSet(G)
    THEN [G EXCEPT !.attributes[n] = attrs]
    ELSE [nodes |-> Append(G.nodes, n),
          adj |-> (n :> <<>>) @@ G.adj,
          attributes |-> (n :> attrs) @@ G.attributes]

\* both endpoints are nodes of G wherever the program calls it
add_edge(G, a, b) ==
    IF has_edge(G, a, b) THEN G
    ELSE [G EXCEPT !.adj[a] = Append(@, b)]

successors(G, n) == G.adj[n]

EdgeSet(G) == UNION {{<<a, G.adj[a][k]>> : k \in 1..Len(G.adj[a])} : a \in DOMAIN G.adj}

RECURSIVE EdgeCountFrom(_, _)
EdgeCountFrom(G, k) ==
    IF k > Len(G.nodes) THEN 0 ELSE Len(G.adj[G.nodes[k]]) + EdgeCountFrom(G, k + 1)

EdgeCount(G) == EdgeCountFrom(G, 1)

InDegree(G, n) == Cardinality({a \in NodeSet(G) : has_edge(G, a, n)})

OutDegree(G, n) == Len(G.adj[n])

-----------------------------------------------------------------------------
(* AdaptiveStoryGraph *)

\* The k-th draw of random_attributes along stream `seed`: three independent
\* randint draws, emotion in 1..10, risk in 0..5, reward in 0..5.
random_attributes(seed, k) ==
    [emotion |-> ((7 * seed + 3 * k) % 10) + 1,
     risk    |-> (seed + 5 * k + (k \div 3)) % 6,
     reward  |-> (2 * seed + k + (k \div 2)) % 6]

\* every node is created with one draw, so the next draw is number |nodes|+1
NextDraw(G, seed) == random_attributes(seed, Len(G.nodes) + 1)

ChoiceName(i) == "choice_" \o ToString(i)

PathName(n, j) == n \o "_path" \o ToString(j)

EndName(m) == m \o "_end"

\* One secondary branch (the body of the loop of line 50): node m under n,
\* and an ending under m when the draw of line 58 falls below 0.35.
AddPath(G, n, j, ending, seed) ==
    LET m  == PathName(n, j)
        G1 == add_edge(add_node(G, m, NextDraw(G, seed)), n, m)
    IN  IF ending
        THEN add_edge(add_node(G1, EndName(m), NextDraw(G1, seed)), m, EndName(m))
        ELSE G1

RECURSIVE AddPaths(_, _, _, _, _)
\* iterations j .. shape.paths-1 of the loop of line 50
AddPaths(G, n, shape, j, seed) ==
    IF j >= shape.paths THEN G
    ELSE AddPaths(AddPath(G, n, j, j \in shape.ends, seed), n, shape, j + 1, seed)

\* The outcomes of the draws made for one primary branch: randint(1, 3) paths
\* and, per path, whether random() < 0.35.
BranchShapes ==
    {[paths |-> p, ends |-> E] : p \in MinPaths..MaxPaths, E \in SUBSET (0..(MaxPaths - 1))}

ShapeOk(shape) == shape.ends \subseteq 0..(shape.paths - 1)

\* nodes of a branch beyond its choice node and its first path
Extra(shape) == (shape.paths - 1) + Cardinality(shape.ends)

\* One primary branch (the body of the loop of line 42).
AddBranch(G, i, shape, seed) ==
    LET n  == ChoiceName(i)
        G1 == add_edge(add_node(G, n, NextDraw(G, seed)), "start", n)
    IN  AddPaths(G1, n, shape, 0, seed)

\* line 38
AddRoot(seed) == add_node(EmptyGraph, "start", random_attributes(seed, 1))

\* One cross-link attempt (lines 68-70) on the sampled pair a, b.
CrossLinkNoStartCheck(G, a, b) ==
    IF a # b /\ ~has_edge(G, a, b) THEN add_edge(G, a, b) ELSE G

CrossLinkIntoStart(G, a, b) ==
    IF a # "start" /\ a # b /\ ~has_edge(G, a, b)
    THEN add_edge(G, a, b)
    ELSE G

CrossLink(G, a, b) ==
    IF a # "start" /\ b # "start" /\ a # b /\ ~has_edge(G, a, b)
    THEN add_edge(G, a, b)
    ELSE G

RECURSIVE GrowTree(_, _, _)
\* the loop of line 42 from branch i on; shapes[i] are the draws of branch i
GrowTree(G, shapes, i) ==
    IF i > Len(shapes) THEN G
    ELSE GrowTree(AddBranch(G, i, shapes[i], shapes[i].seed), shapes, i + 1)

RECURSIVE CrossLinks(_, _, _)
\* the loop of line 67 from attempt k on; samples[k] are positions in `nodes`
CrossLinks(G, nodes, samples) ==
    IF samples = <<>> THEN G
    ELSE CrossLinks(CrossLink(G, nodes[Head(samples)[1]], nodes[Head(samples)[2]]),
                    nodes, Tail(samples))

\* generate_story under one outcome of its random draws
generate_story(rnd) ==
    LET shapes == [k \in 1..Len(rnd.shapes) |->
                      [paths |-> rnd.shapes[k].paths, ends |-> rnd.shapes[k].ends,
                       seed |-> rnd.seed]]
        tree   == GrowTree(AddRoot(rnd.seed), shapes, 1)
    IN  CrossLinks(tree, tree.nodes, rnd.samples)

\* line 121
get_choices(G, node) == successors(G, node)

\* line 128; the callers pass nodes of G only
get_node_attributes(G, node) ==
    IF node \in DOMAIN G.attributes
    THEN G.attributes[node]
    ELSE [emotion |-> 5, risk |-> 2, reward |-> 2]

-----------------------------------------------------------------------------
(* SimpleAIAdvisor *)

\* the noise of line 175 is uniform over [-NoiseMax, NoiseMax] thousandths;
\* the draws explored are its two ends and its middle
NoiseMax == 300

NoiseSamples == {0 - NoiseMax, 0, NoiseMax}

\* 1000 * exp(-((emotion - 7)^2) / 8), rounded (line 159)
EmotionPref(emotion) ==
    LET d == (emotion - 7) * (emotion - 7)
    IN  CASE d = 0  -> 1000
          [] d = 1  -> 882
          [] d = 4  -> 607
          [] d = 9  -> 325
          [] d = 16 -> 135
          [] d = 25 -> 44
          [] d = 36 -> 11
          [] OTHER  -> 0

ObservedReward(data, node) ==
    IF node \in DOMAIN data.stats THEN data.stats[node].observed_reward ELSE 0

\* lines 141-176, with the draw of line 175 given
score_choiceRewardIgnored(G, data, node, noise) ==
    LET attrs == get_node_attributes(G, node)
    IN  0 - 1200 * attrs.risk + EmotionPref(attrs.emotion)
        + (IF node \notin Range(data.visited) THEN 1300 ELSE 0)
        + 200 * ObservedReward(data, node) + noise

score_choice(G, data, node, noise) ==
    LET attrs   == get_node_attributes(G, node)
        base    == 1100 * attrs.reward - 1200 * attrs.risk
        novelty == IF node \notin Range(data.visited) THEN 1000 ELSE 0
    IN  base + EmotionPref(attrs.emotion) + (1300 * novelty) \div 1000
        + 200 * ObservedReward(data, node) + noise

\* list.sort(key=score, reverse=True) is stable: x goes behind every entry
\* whose score is at least its own
RECURSIVE InsertDesc(_, _)
InsertDesc(sorted, x) ==
    IF sorted = <<>> THEN <<x>>
    ELSE IF Head(sorted).score >= x.score
         THEN <<Head(sorted)>> \o InsertDesc(Tail(sorted), x)
         ELSE <<x>> \o sorted

RECURSIVE SortDesc(_, _)
SortDesc(scored, done) ==
    IF scored = <<>> THEN done
    ELSE SortDesc(Tail(scored), InsertDesc(done, Head(scored)))

\* lines 178-181; noise[k] is the draw made for choices[k]
rank_choicesAscending(G, data, choices, noise) ==
    LET scored == [k \in 1..Len(choices) |->
                      [node |-> choices[k], score |-> 0 - score_choice(G, data, choices[k], noise[k])]]
        sorted == SortDesc(scored, <<>>)
    IN  [k \in 1..Len(sorted) |-> [node |-> sorted[k].node, score |-> 0 - sorted[k].score]]

rank_choices(G, data, choices, noise) ==
    LET scored == [k \in 1..Len(choices) |->
                      [node |-> choices[k], score |-> score_choice(G, data, choices[k], noise[k])]]
    IN  SortDesc(scored, <<>>)

None == "None"

\* lines 192-207: the parts joined by "; " (the score is shown in thousandths)
explain_choice(G, data, node, score) ==
    LET attrs == get_node_attributes(G, node)
    IN  "Score=" \o ToString(score)
        \o "; Reward=" \o ToString(attrs.reward)
        \o "; Risk=" \o ToString(attrs.risk)
        \o "; Emotion=" \o ToString(attrs.emotion)
        \o (IF node \notin Range(data.visited) THEN "; Novelty bonus: not visited" ELSE "")
        \o (IF ObservedReward(data, node) # 0
            THEN "; Observed reward=" \o ToString(ObservedReward(data, node)) ELSE "")

\* lines 183-190
recommend(G, data, choices, noise) ==
    IF choices = <<>>
    THEN [best |-> None, explanation |-> None]
    ELSE LET ranked == rank_choices(G, data, choices, noise)
         IN  [best |-> ranked[1].node,
              explanation |-> explain_choice(G, data, ranked[1].node, ranked[1].score)]

-----------------------------------------------------------------------------
(* hierarchy_layout *)

\* lines 215-218: the for loop over the successors of v; st holds levels, the
\* order of its keys, and queue
RECURSIVE VisitChildrenNoSeenCheck(_, _, _)
VisitChildrenNoSeenCheck(st, v, children) ==
    IF children = <<>> THEN st
    ELSE LET child == Head(children)
         IN  VisitChildrenNoSeenCheck(
                 [levels |-> (child :> st.levels[v] + 1) @@ st.levels,
                  order  |-> IF child \in DOMAIN st.levels THEN st.order
                             ELSE Append(st.order, child),
                  queue  |-> Append(st.queue, child)],
                 v, Tail(children))

RECURSIVE VisitChildren(_, _, _)
VisitChildren(st, v, children) ==
    IF children = <<>> THEN st
    ELSE LET child == Head(children)
         IN  IF child \notin DOMAIN st.levels
             THEN VisitChildren(
                      [levels |-> (child :> st.levels[v] + 1) @@ st.levels,
                       order  |-> Append(st.order, child),
                       queue  |-> Append(st.queue, child)],
                      v, Tail(children))
             ELSE VisitChildren(st, v, Tail(children))

\* lines 220-222: the nodes of one level, in the order `levels` lists them
LayerNodes(levels, order, depth) ==
    LET AtDepth(n) == levels[n] = depth
    IN  SelectSeq(order, AtDepth)

\* lines 224-228, width = 2.0, vert_gap = 1.3, vert_loc = 0, in thousandths
PlaceNodes(levels, order) ==
    [node \in DOMAIN levels |->
        LET nodes == LayerNodes(levels, order, levels[node])
            dx    == 2000 \div (Len(nodes) + 1)
            i     == (CHOOSE k \in 1..Len(nodes) : nodes[k] = node) - 1
        IN  [x |-> i * dx, y |-> 0 - levels[node] * 1300]]

-----------------------------------------------------------------------------
(* generate_story, one loop iteration per step *)

GenInit ==
    /\ gen_pc = "root"
    /\ gen_G = EmptyGraph
    /\ gen_branches = 0
    /\ gen_i = 0
    /\ gen_seed \in 1..NumSeeds
    /\ gen_links = 0
    /\ gen_attempts = 0
    /\ gen_tree = EmptyGraph

GenIdle ==
    /\ gen_pc = "idle"
    /\ gen_G = EmptyGraph
    /\ gen_branches = 0
    /\ gen_i = 0
    /\ gen_seed = 0
    /\ gen_links = 0
    /\ gen_attempts = 0
    /\ gen_tree = EmptyGraph

\* extra nodes the tree has so far
GenExtras(G, i) == Len(G.nodes) - 1 - 2 * i

\* lines 38-41
GenRoot ==
    /\ gen_pc = "root"
    /\ gen_G' = AddRoot(gen_seed)
    /\ gen_branches' \in MinBranches..MaxBranches
    /\ gen_pc' = "tree"
    /\ UNCHANGED <<gen_i, gen_seed, gen_links, gen_attempts, gen_tree>>

\* lines 42-63, one iteration
GenBranch ==
    /\ gen_pc = "tree"
    /\ gen_i < gen_branches
    /\ \E shape \in BranchShapes :
          /\ ShapeOk(shape)
          /\ GenExtras(gen_G, gen_i) + Extra(shape) <= GenExtraBound
          /\ gen_G' = AddBranch(gen_G, gen_i + 1, shape, gen_seed)
    /\ gen_i' = gen_i + 1
    /\ UNCHANGED <<gen_pc, gen_branches, gen_seed, gen_links, gen_attempts, gen_tree>>

\* lines 66-67: the node list is taken and the number of attempts drawn
GenLinksBegin ==
    /\ gen_pc = "tree"
    /\ gen_i = gen_branches
    /\ gen_links' \in MinLinks..MaxLinks
    /\ gen_tree' = gen_G
    /\ gen_pc' = "links"
    /\ UNCHANGED <<gen_G, gen_branches, gen_i, gen_seed, gen_attempts>>

\* lines 68-70, one iteration; random.sample draws two distinct positions
GenLink ==
    /\ gen_pc = "links"
    /\ gen_attempts < gen_links
    /\ \E ia, ib \in 1..Min(Len(gen_tree.nodes), LinkSampleBound) :
          /\ ia # ib
          /\ gen_G' = CrossLink(gen_G, gen_tree.nodes[ia], gen_tree.nodes[ib])
          /\ EdgeCount(gen_G') - EdgeCount(gen_tree) <= LinkAddBound
    /\ gen_attempts' = gen_attempts + 1
    /\ UNCHANGED <<gen_pc, gen_branches, gen_i, gen_seed, gen_links, gen_tree>>

\* the loop of line 67 is over: generate_story returns
GenDone ==
    /\ gen_pc = "links"
    /\ gen_attempts = gen_links
    /\ gen_pc' = "done"
    /\ UNCHANGED <<gen_G, gen_branches, gen_i, gen_seed, gen_links, gen_attempts, gen_tree>>


-----------------------------------------------------------------------------
(* StoryApp *)

\* line 14, and line 437
DefaultStory ==
    [current_node |-> "start", visited |-> <<>>, history |-> <<>>,
     stats |-> [n \in {} |-> 0]]

NoFile == [exists |-> FALSE, data |-> DefaultStory]

\* lines 12-16
load_story(file) == IF file.exists THEN file.data ELSE DefaultStory

\* lines 18-20
save_story(data) == [exists |-> TRUE, data |-> data]

\* The outcomes of generate_story's draws that the application is run on.
\* Nodes are sampled by their position in list(G.nodes()).
AppOutcomes ==
    { [seed |-> 1,
       shapes |-> << [paths |-> 1, ends |-> {0}], [paths |-> 1, ends |-> {}],
                     [paths |-> 2, ends |-> {}] >>,
       samples |-> << <<3, 2>>, <<1, 5>>, <<6, 2>> >>],
      [seed |-> 2,
       shapes |-> << [paths |-> 1, ends |-> {}], [paths |-> 1, ends |-> {}],
                     [paths |-> 1, ends |-> {}], [paths |-> 1, ends |-> {0}] >>,
       samples |-> << <<2, 4>>, <<4, 2>>, <<9, 1>>, <<5, 3>> >>] }

\* AdaptiveStoryGraph(): lines 24-27
NewStoryGraphs == {generate_story(rnd) : rnd \in AppOutcomes}

Report(handler, dialog) == [handler |-> handler, dialog |-> dialog]

\* lines 285-316: what show_story(node) leaves behind.  get_text raises
\* KeyError at line 290 for a node that is not in G, after the record was
\* written and before the buttons are touched; Tk reports the exception and
\* the event loop goes on.
show_story(G, data, node, choices, btns) ==
    LET data1 == [data EXCEPT !.current_node = node]
    IN  IF node \notin NodeSet(G)
        THEN [data |-> data1, file |-> save_story(data1),
              current_choices |-> choices, buttons |-> btns, raised |-> TRUE]
        ELSE IF get_choices(G, node) = <<>>
        THEN [data |-> data1, file |-> save_story(data1),
              current_choices |-> choices, buttons |-> <<>>, raised |-> FALSE]
        ELSE [data |-> data1, file |-> save_story(data1),
              current_choices |-> get_choices(G, node),
              buttons |-> get_choices(G, node), raised |-> FALSE]

\* lines 331-338
UpdateStatsKeepFirst(G, stats, node) ==
    IF node \in DOMAIN stats THEN stats
    ELSE (node :> [visits |-> 1,
                   observed_reward |-> get_node_attributes(G, node).reward]) @@ stats

UpdateStatsRewardOnce(G, stats, node) ==
    IF node \in DOMAIN stats
    THEN [stats EXCEPT ![node].visits = @ + 1]
    ELSE (node :> [visits |-> 1,
                   observed_reward |-> get_node_attributes(G, node).reward]) @@ stats

UpdateStats(G, stats, node) ==
    LET observed  == get_node_attributes(G, node).reward
        node_stat == IF node \in DOMAIN stats THEN stats[node]
                     ELSE [visits |-> 0, observed_reward |-> 0]
    IN  (node :> [visits |-> node_stat.visits + 1,
                  observed_reward |-> node_stat.observed_reward + observed]) @@ stats

\* lines 323-329
PushAndMove(data, stack, node) ==
    [data EXCEPT !.current_node = node,
                 !.visited = IF node \in Range(@) THEN @ ELSE Append(@, node),
                 !.history = Append(stack, data.current_node)]

TotalEntered == Cardinality(UNION {{<<n, k>> : k \in 1..entered[n]} : n \in DOMAIN entered})

\* lines 322-341: next_node(node), called by `handler`
next_node(node, handler) ==
    /\ TotalEntered < MaxTransitions
    /\ LET data1 == PushAndMove(story_data, history_stack, node)
           data2 == [data1 EXCEPT !.stats = UpdateStats(story_graph, @, node)]
           shown == show_story(story_graph, data2, node, current_choices, buttons)
       IN  /\ history_stack' = data1.history
           /\ story_data' = shown.data
           /\ story_file' = shown.file
           /\ current_choices' = shown.current_choices
           /\ buttons' = shown.buttons
           /\ last' = Report(handler, IF shown.raised THEN "KeyError" ELSE "none")
    /\ entered' = (node :> (IF node \in DOMAIN entered THEN entered[node] + 1 ELSE 1)) @@ entered
    /\ UNCHANGED <<story_graph, same_graph>>

\* line 310: one of the choice buttons is pressed
ClickChoice == \E k \in 1..Len(buttons) : next_node(buttons[k], "next_node")

\* lines 379-392
auto_choose ==
    \E noise \in [1..Len(current_choices) -> NoiseSamples] :
        LET best == recommend(story_graph, story_data, current_choices, noise).best
        IN  IF best = None
            THEN /\ last' = Report("auto_choose", "No available choices to auto-choose.")
                 /\ UNCHANGED <<story_graph, story_data, history_stack, story_file,
                                current_choices, buttons, entered, same_graph>>
            ELSE next_node(best, "auto_choose")

\* lines 343-351
PopToKeepAll(stack) == stack

PopTo(stack) == SubSeq(stack, 1, Len(stack) - 1)

go_backUndoesVisit ==
    IF history_stack = <<>>
    THEN /\ last' = Report("go_back", "You are already at the beginning!")
         /\ UNCHANGED <<story_graph, story_data, history_stack, story_file,
                        current_choices, buttons, entered, same_graph>>
    ELSE LET prev  == history_stack[Len(history_stack)]
             stack == PopTo(history_stack)
             left  == story_data.current_node
             data1 == [story_data EXCEPT
                          !.current_node = prev, !.history = stack,
                          !.visited = SelectSeq(@, LAMBDA n : n # left)]
             shown == show_story(story_graph, data1, prev, current_choices, buttons)
         IN  /\ history_stack' = stack
             /\ story_data' = shown.data
             /\ story_file' = shown.file
             /\ current_choices' = shown.current_choices
             /\ buttons' = shown.buttons
             /\ last' = Report("go_back", IF shown.raised THEN "KeyError" ELSE "none")
             /\ UNCHANGED <<story_graph, entered, same_graph>>

go_back ==
    IF history_stack = <<>>
    THEN /\ last' = Report("go_back", "You are already at the beginning!")
         /\ UNCHANGED <<story_graph, story_data, history_stack, story_file,
                        current_choices, buttons, entered, same_graph>>
    ELSE LET prev  == history_stack[Len(history_stack)]
             stack == PopTo(history_stack)
             data1 == [story_data EXCEPT !.current_node = prev, !.history = stack]
             shown == show_story(story_graph, data1, prev, current_choices, buttons)
         IN  /\ history_stack' = stack
             /\ story_data' = shown.data
             /\ story_file' = shown.file
             /\ current_choices' = shown.current_choices
             /\ buttons' = shown.buttons
             /\ last' = Report("go_back", IF shown.raised THEN "KeyError" ELSE "none")
             /\ UNCHANGED <<story_graph, entered, same_graph>>

\* lines 433-441
restart_new_story ==
    \E G \in NewStoryGraphs :
        LET shown == show_story(G, DefaultStory, "start", current_choices, buttons)
        IN  /\ story_graph' = G
            /\ history_stack' = <<>>
            /\ story_data' = shown.data
            /\ story_file' = shown.file
            /\ current_choices' = shown.current_choices
            /\ buttons' = shown.buttons
            /\ last' = Report("restart_new_story", "New Story")
            /\ entered' = [n \in {} |-> 0]
            /\ same_graph' = TRUE

\* lines 239-250: what StoryApp() finds and leaves, for the record `file` on
\* disk.  A fresh process has no current_choices and no buttons.
Startup(G, data) ==
    IF data.current_node \notin NodeSet(G)
    THEN [data EXCEPT !.current_node = "start"]
    ELSE data

AppStart(G, file) ==
    LET data0 == load_story(file)
        data1 == Startup(G, data0)
        shown == show_story(G, data1, data1.current_node, <<>>, <<>>)
    IN  [story_graph |-> G, history_stack |-> data0.history, story_data |-> shown.data,
         story_file |-> shown.file, current_choices |-> shown.current_choices,
         buttons |-> shown.buttons]

\* the first run: no story_progress.json
AppInit ==
    \E G \in NewStoryGraphs :
        LET a == AppStart(G, NoFile)
        IN  /\ story_graph = a.story_graph
            /\ story_data = a.story_data
            /\ history_stack = a.history_stack
            /\ story_file = a.story_file
            /\ current_choices = a.current_choices
            /\ buttons = a.buttons
            /\ last = Report("__init__", "none")
            /\ entered = [n \in {} |-> 0]
            /\ same_graph = TRUE

\* the window is closed (Exit, line 261) and the program is run again
Relaunch ==
    \E G \in NewStoryGraphs :
        LET a == AppStart(G, story_file)
        IN  /\ story_graph' = a.story_graph
            /\ story_data' = a.story_data
            /\ history_stack' = a.history_stack
            /\ story_file' = a.story_file
            /\ current_choices' = a.current_choices
            /\ buttons' = a.buttons
            /\ last' = Report("__init__", "none")
            /\ same_graph' = FALSE
            /\ UNCHANGED entered

AppIdle ==
    /\ story_graph = EmptyGraph
    /\ story_data = DefaultStory
    /\ history_stack = <<>>
    /\ story_file = NoFile
    /\ current_choices = <<>>
    /\ buttons = <<>>
    /\ last = Report("idle", "none")
    /\ entered = [n \in {} |-> 0]
    /\ same_graph = TRUE


-----------------------------------------------------------------------------
(* Specifications *)

RtIdle ==
    /\ rt_phase = "idle"
    /\ rt_trail = <<>>
    /\ rt_backs = 0
    /\ rt_mark = DefaultStory

\* The application: every handler, in any order, across runs of the program.
AdvIdle ==
    /\ adv_pc = "idle"
    /\ adv_graph = EmptyGraph
    /\ adv_data = DefaultStory
    /\ adv_choices = <<>>
    /\ adv_noise = <<>>
    /\ adv_ranked = <<>>
    /\ adv_result = [best |-> None, explanation |-> None]

LayIdle ==
    /\ lay_pc = "idle"
    /\ lay_G = EmptyGraph
    /\ lay_root = ""
    /\ lay_levels = [n \in {} |-> 0]
    /\ lay_order = <<>>
    /\ lay_queue = <<>>
    /\ lay_pos = [n \in {} |-> 0]
    /\ lay_iters = 0

Init == AppInit /\ GenIdle /\ RtIdle /\ AdvIdle /\ LayIdle

ChoicePressed == ClickChoice /\ UNCHANGED <<genVars, rtVars, advVars, layVars>>

AutoChoosePressed == auto_choose /\ UNCHANGED <<genVars, rtVars, advVars, layVars>>

GoBackPressed == go_back /\ UNCHANGED <<genVars, rtVars, advVars, layVars>>

NewStoryPressed == restart_new_story /\ UNCHANGED <<genVars, rtVars, advVars, layVars>>

ExitAndRunAgain == Relaunch /\ UNCHANGED <<genVars, rtVars, advVars, layVars>>

Next ==
    \/ ChoicePressed
    \/ AutoChoosePressed
    \/ GoBackPressed
    \/ NewStoryPressed
    \/ ExitAndRunAgain

Spec == Init /\ [][Next]_vars

\* generate_story alone.
InitGen == GenInit /\ AppIdle /\ RtIdle /\ AdvIdle /\ LayIdle

GenRootStep == GenRoot /\ UNCHANGED <<appVars, rtVars, advVars, layVars>>

GenBranchStep == GenBranch /\ UNCHANGED <<appVars, rtVars, advVars, layVars>>

GenLinksBeginStep == GenLinksBegin /\ UNCHANGED <<appVars, rtVars, advVars, layVars>>

GenLinkStep == GenLink /\ UNCHANGED <<appVars, rtVars, advVars, layVars>>

GenDoneStep == GenDone /\ UNCHANGED <<appVars, rtVars, advVars, layVars>>

NextGen ==
    \/ GenRootStep
    \/ GenBranchStep
    \/ GenLinksBeginStep
    \/ GenLinkStep
    \/ GenDoneStep

SpecGen == InitGen /\ [][NextGen]_vars

\* The round trip: from the default Player State of a first run, k forward
\* transitions (choice buttons and Auto-Choose), then go_back k + 1 times.
InitRoundTrip ==
    /\ AppInit
    /\ GenIdle
    /\ AdvIdle
    /\ LayIdle
    /\ rt_phase = "forward"
    /\ rt_trail = <<"start">>
    /\ rt_backs = 0
    /\ rt_mark = story_data

Moved == Len(history_stack') = Len(history_stack) + 1

RtChoice ==
    /\ rt_phase = "forward"
    /\ ClickChoice
    /\ rt_trail' = Append(rt_trail, story_data'.current_node)
    /\ rt_mark' = story_data'
    /\ UNCHANGED <<genVars, advVars, layVars, rt_phase, rt_backs>>

RtAutoChoose ==
    /\ rt_phase = "forward"
    /\ auto_choose
    /\ Moved
    /\ rt_trail' = Append(rt_trail, story_data'.current_node)
    /\ rt_mark' = story_data'
    /\ UNCHANGED <<genVars, advVars, layVars, rt_phase, rt_backs>>

RtTurn ==
    /\ rt_phase = "forward"
    /\ rt_phase' = "back"
    /\ UNCHANGED <<genVars, advVars, layVars, appVars, rt_trail, rt_backs, rt_mark>>

RtBack ==
    /\ rt_phase = "back"
    /\ rt_backs < Len(rt_trail)
    /\ go_back
    /\ rt_backs' = rt_backs + 1
    /\ UNCHANGED <<genVars, advVars, layVars, rt_phase, rt_trail, rt_mark>>

NextRoundTrip == RtChoice \/ RtAutoChoose \/ RtTurn \/ RtBack

SpecRoundTrip == InitRoundTrip /\ [][NextRoundTrip]_vars

-----------------------------------------------------------------------------
(* Claims about the Player State *)

Stats == story_data.stats

RewardOf(n) == story_graph.attributes[n].reward

NoDuplicates(seq) == \A a, b \in 1..Len(seq) : seq[a] = seq[b] => a = b

IsPrefix(s, t) == Len(s) <= Len(t) /\ SubSeq(t, 1, Len(s)) = s

Restarted == last'.handler = "restart_new_story"

\* C1: a forward transition (next_node, from a choice button or from
\* Auto-Choose) is applied only to a successor of the current node.
C1_OnlyToSuccessors ==
    [][Moved => has_edge(story_graph, story_data.current_node,
                         story_data'.current_node)]_vars

\* C2: current_node is a node of the active graph in every state after
\* startup, whatever record the run found on disk.
C2_CurrentNodeInGraph == story_data.current_node \in NodeSet(story_graph)

\* C3: after k transitions from the default Player State, the b-th go_back
\* (b <= k) is at the node the (k - b)-th transition reached with the history
\* of that moment, the k-th is at "start" with an empty history, and the
\* (k + 1)-th reports "already at the beginning" and changes nothing; visited
\* and stats are as the transitions left them throughout.
C3_RoundTrip ==
    rt_phase = "back" =>
        LET k == Len(rt_trail) - 1
            b == IF rt_backs <= k THEN rt_backs ELSE k
        IN  /\ story_data.current_node = rt_trail[k + 1 - b]
            /\ history_stack = SubSeq(rt_trail, 1, k - b)
            /\ story_data.history = history_stack
            /\ story_data.visited = rt_mark.visited
            /\ story_data.stats = rt_mark.stats
            /\ story_file = save_story(story_data)
            /\ rt_backs = k =>
                  story_data.current_node = "start" /\ history_stack = <<>>
            /\ rt_backs = k + 1 =>
                  /\ last = Report("go_back", "You are already at the beginning!")
                  /\ story_data.current_node = "start" /\ history_stack = <<>>
            /\ (rt_backs >= 1 /\ rt_backs <= k) => last = Report("go_back", "none")

\* three transitions, undone, and one go_back more
C3_Witness ==
    /\ rt_phase = "back"
    /\ Len(rt_trail) = 4
    /\ rt_backs = 4

\* C4: visited only grows and lists no node twice, and stats[n].visits is the
\* number of transitions made into n, with no entry for a node never entered.
C4_VisitedAndVisits ==
    /\ [](/\ NoDuplicates(story_data.visited)
          /\ [n \in DOMAIN Stats |-> Stats[n].visits] = entered)
    /\ [][~Restarted => IsPrefix(story_data.visited, story_data'.visited)]_vars

\* a node entered twice, with a go_back in between
C4_Witness ==
    /\ \E n \in DOMAIN entered : entered[n] = 2 /\ Stats[n].visits = 2
    /\ Len(story_data.visited) = 2
    /\ Len(history_stack) = 1

\* C5: a transition into n adds one to stats[n].visits and n's reward to
\* stats[n].observed_reward, starting an absent entry from zero; under the
\* graph the Player State was created with, observed_reward = visits * reward;
\* no handler lowers either field of the Player State it works on.
C5_ObservedReward ==
    /\ [](same_graph =>
            \A n \in DOMAIN Stats : Stats[n].observed_reward = Stats[n].visits * RewardOf(n))
    /\ [][Moved =>
            LET n   == story_data'.current_node
                old == IF n \in DOMAIN Stats THEN Stats[n]
                       ELSE [visits |-> 0, observed_reward |-> 0]
            IN  /\ story_data'.stats[n].visits = old.visits + 1
                /\ story_data'.stats[n].observed_reward = old.observed_reward + RewardOf(n)
                /\ \A m \in DOMAIN Stats : m # n => story_data'.stats[m] = Stats[m]]_vars
    /\ [][~Restarted =>
            \A n \in DOMAIN Stats :
                /\ n \in DOMAIN story_data'.stats
                /\ story_data'.stats[n].visits >= Stats[n].visits
                /\ story_data'.stats[n].observed_reward >= Stats[n].observed_reward]_vars

\* a node with a positive reward entered twice under one graph
C5_Witness ==
    /\ same_graph
    /\ \E n \in DOMAIN Stats :
          Stats[n].visits = 2 /\ RewardOf(n) > 0 /\ Stats[n].observed_reward = 2 * RewardOf(n)

\* a go_back that found something on the history stack
BackStep == history_stack # <<>> /\ last'.handler = "go_back"

\* C11: go_back with a non-empty history removes exactly the top element of
\* the history, makes it the current node, and leaves visited, every stats
\* entry and the graph as they were; the record written to disk is the
\* resulting Player State.
C11_GoBackFrame ==
    [][BackStep =>
          /\ history_stack' = SubSeq(history_stack, 1, Len(history_stack) - 1)
          /\ story_data'.history = history_stack'
          /\ story_data'.current_node = history_stack[Len(history_stack)]
          /\ story_data'.visited = story_data.visited
          /\ story_data'.stats = story_data.stats
          /\ DOMAIN story_data' = DOMAIN story_data
          /\ story_graph' = story_graph
          /\ story_file' = save_story(story_data')]_vars

\* two transitions made and the second one undone: the node left is still in
\* visited and keeps its visit
C11_Witness ==
    /\ last = Report("go_back", "none")
    /\ Len(history_stack) = 1
    /\ Len(story_data.visited) = 2
    /\ \A n \in Range(story_data.visited) : n \in DOMAIN Stats /\ Stats[n].visits = 1
    /\ story_data.current_node = story_data.visited[1]

\* The advisor alone: recommend on the choices of any node, for the Player
\* States that walks from "start" leave.
RECURSIVE Walks(_, _)
Walks(G, k) ==
    IF k = 0 THEN {<<"start">>}
    ELSE LET shorter == Walks(G, k - 1)
         IN  shorter \cup
             UNION {{Append(w, n) : n \in Range(get_choices(G, w[Len(w)]))} : w \in shorter}

RECURSIVE AfterWalk(_, _, _)
\* the Player State next_node leaves after the transitions w[k], w[k+1], ...
AfterWalk(G, data, w) ==
    IF w = <<>> THEN data
    ELSE LET data1 == PushAndMove(data, data.history, Head(w))
         IN  AfterWalk(G, [data1 EXCEPT !.stats = UpdateStats(G, @, Head(w))], Tail(w))

InitAdvisor ==
    /\ GenIdle /\ AppIdle /\ RtIdle /\ LayIdle
    /\ adv_pc = "ready"
    /\ adv_graph \in NewStoryGraphs
    /\ adv_data \in {AfterWalk(adv_graph, DefaultStory, Tail(w)) : w \in Walks(adv_graph, AdvWalkBound)}
    /\ adv_choices \in {get_choices(adv_graph, n) : n \in NodeSet(adv_graph)}
    /\ adv_noise = <<>>
    /\ adv_ranked = <<>>
    /\ adv_result = [best |-> None, explanation |-> None]

\* one call of recommend; its rank_choices call draws the noise
AdvRecommend ==
    /\ adv_pc = "ready"
    /\ \E noise \in [1..Len(adv_choices) -> NoiseSamples] :
          /\ adv_noise' = noise
          /\ adv_ranked' = rank_choices(adv_graph, adv_data, adv_choices, noise)
          /\ adv_result' = recommend(adv_graph, adv_data, adv_choices, noise)
    /\ adv_pc' = "done"
    /\ UNCHANGED <<adv_graph, adv_data, adv_choices, genVars, appVars, rtVars, layVars>>

\* show_recommendation and auto_choose may call again
AdvAgain ==
    /\ adv_pc = "done"
    /\ adv_pc' = "ready"
    /\ UNCHANGED <<adv_graph, adv_data, adv_choices, adv_noise, adv_ranked, adv_result,
                   genVars, appVars, rtVars, layVars>>

NextAdvisor == AdvRecommend \/ AdvAgain

SpecAdvisor == InitAdvisor /\ [][NextAdvisor]_vars

\* score_choice alone, noise fixed to 0: nodes "a" and "b" that differ in one
\* factor of the score.
AttrTriples == [emotion : 1..10, risk : 0..5, reward : 0..5]

Variations ==
    [kind : {"reward"}, to : 0..5] \cup [kind : {"risk"}, to : 0..5]
    \cup [kind : {"visited"}, to : {0}] \cup [kind : {"observed"}, to : 0..ObsBound]

Vary(attrs, v) ==
    CASE v.kind = "reward" -> [attrs EXCEPT !.reward = v.to]
      [] v.kind = "risk"   -> [attrs EXCEPT !.risk = v.to]
      [] OTHER             -> attrs

\* a Player State in which `seen` are the visited nodes and obs[n] is n's
\* observed_reward (no stats entry for an unvisited node with none)
PlayerWith(seen, obs) ==
    [current_node |-> "start",
     visited |-> (IF "a" \in seen THEN <<"a">> ELSE <<>>) \o (IF "b" \in seen THEN <<"b">> ELSE <<>>),
     history |-> <<>>,
     stats |-> [n \in {m \in {"a", "b"} : m \in seen \/ obs[m] > 0} |->
                   [visits |-> IF n \in seen THEN 1 ELSE 0, observed_reward |-> obs[n]]]]

InitScore ==
    /\ GenIdle /\ AppIdle /\ RtIdle /\ LayIdle
    /\ adv_pc = "ready"
    /\ \E attrs \in AttrTriples, v \in Variations, seen \in BOOLEAN, o \in 0..ObsBound :
          /\ v.kind = "reward" => v.to # attrs.reward
          /\ v.kind = "risk" => v.to # attrs.risk
          /\ v.kind = "observed" => v.to # o
          /\ adv_graph = add_node(add_node(EmptyGraph, "a", attrs), "b", Vary(attrs, v))
          /\ adv_data =
                PlayerWith((IF seen THEN {"a"} ELSE {})
                              \cup (IF seen # (v.kind = "visited") THEN {"b"} ELSE {}),
                           [n \in {"a", "b"} |->
                               IF n = "b" /\ v.kind = "observed" THEN v.to ELSE o])
    /\ adv_choices = <<"a", "b">>
    /\ adv_noise = <<>>
    /\ adv_ranked = <<>>
    /\ adv_result = [best |-> None, explanation |-> None]

\* the comprehension of line 179 with every draw of line 175 equal to 0
ScoreBoth ==
    /\ adv_pc = "ready"
    /\ adv_noise' = [k \in 1..Len(adv_choices) |-> 0]
    /\ adv_ranked' = [k \in 1..Len(adv_choices) |->
                         [node |-> adv_choices[k],
                          score |-> score_choice(adv_graph, adv_data, adv_choices[k], 0)]]
    /\ adv_pc' = "scored"
    /\ UNCHANGED <<adv_graph, adv_data, adv_choices, adv_result, genVars, appVars, rtVars, layVars>>

NextScore == ScoreBoth

SpecScore == InitScore /\ [][NextScore]_vars

-----------------------------------------------------------------------------
(* Claims about SimpleAIAdvisor *)

IndexOf(seq, x) == CHOOSE k \in 1..Len(seq) : seq[k] = x

DrawnScore(k) == score_choice(adv_graph, adv_data, adv_choices[k], adv_noise[k])

\* C7: recommend returns (None, None) exactly when choices is empty;
\* otherwise it returns a member of choices whose drawn score no other
\* choice's exceeds, the head of rank_choices' list, which holds every choice
\* once, with its drawn score, in descending order of score.
C7_Recommend ==
    adv_pc = "done" =>
        /\ (adv_result.best = None /\ adv_result.explanation = None) <=> adv_choices = <<>>
        /\ adv_choices = <<>> => adv_ranked = <<>>
        /\ adv_choices # <<>> =>
              /\ adv_result.best \in Range(adv_choices)
              /\ adv_result.explanation # None
              /\ \A k \in 1..Len(adv_choices) :
                    DrawnScore(IndexOf(adv_choices, adv_result.best)) >= DrawnScore(k)
              /\ Len(adv_ranked) = Len(adv_choices)
              /\ \A k \in 1..Len(adv_choices) :
                    Cardinality({j \in 1..Len(adv_ranked) : adv_ranked[j].node = adv_choices[k]}) = 1
              /\ \A j \in 1..Len(adv_ranked) :
                    adv_ranked[j].score = DrawnScore(IndexOf(adv_choices, adv_ranked[j].node))
              /\ \A j \in 1..(Len(adv_ranked) - 1) : adv_ranked[j].score >= adv_ranked[j + 1].score
              /\ adv_ranked[1].node = adv_result.best

\* three choices or more, and the recommended one is not the first offered
C7_Witness ==
    /\ adv_pc = "done"
    /\ Len(adv_choices) >= 3
    /\ adv_result.best # adv_choices[1]
    /\ adv_ranked[1].score > adv_ranked[2].score

AttrsOf(n) == adv_graph.attributes[n]

Seen(n) == n \in Range(adv_data.visited)

ScoreOf(k) == adv_ranked[k].score

\* C8: with noise 0 and everything else equal, a higher reward scores 1.1 per
\* unit more and a higher risk 1.2 per unit less; an unvisited node scores 1.3
\* more than a visited one, and observed_reward counts 0.2 per unit.
C8_ScoreMonotone ==
    adv_pc = "scored" =>
        LET A == AttrsOf("a")
            B == AttrsOf("b")
            samePlayer == /\ Seen("a") = Seen("b")
                          /\ ObservedReward(adv_data, "a") = ObservedReward(adv_data, "b")
        IN  /\ (samePlayer /\ A.emotion = B.emotion /\ A.risk = B.risk /\ A.reward < B.reward) =>
                  /\ ScoreOf(1) < ScoreOf(2)
                  /\ ScoreOf(2) - ScoreOf(1) = 1100 * (B.reward - A.reward)
            /\ (samePlayer /\ A.emotion = B.emotion /\ A.risk = B.risk /\ A.reward > B.reward) =>
                  ScoreOf(1) > ScoreOf(2)
            /\ (samePlayer /\ A.emotion = B.emotion /\ A.reward = B.reward /\ A.risk < B.risk) =>
                  /\ ScoreOf(1) > ScoreOf(2)
                  /\ ScoreOf(1) - ScoreOf(2) = 1200 * (B.risk - A.risk)
            /\ (samePlayer /\ A.emotion = B.emotion /\ A.reward = B.reward /\ A.risk > B.risk) =>
                  ScoreOf(1) < ScoreOf(2)
            /\ (A = B /\ ObservedReward(adv_data, "a") = ObservedReward(adv_data, "b")
                  /\ ~Seen("a") /\ Seen("b")) =>
                  ScoreOf(1) - ScoreOf(2) = 1300
            /\ (A = B /\ Seen("a") = Seen("b")) =>
                  ScoreOf(2) - ScoreOf(1) =
                      200 * (ObservedReward(adv_data, "b") - ObservedReward(adv_data, "a"))

\* reward 0 against reward 5 at the highest risk, both nodes visited
C8_Witness ==
    /\ adv_pc = "scored"
    /\ AttrsOf("a").reward = 0 /\ AttrsOf("b").reward = 5
    /\ AttrsOf("a").risk = 5 /\ AttrsOf("b").risk = 5
    /\ Seen("a") /\ Seen("b")
    /\ ScoreOf(2) - ScoreOf(1) = 5500

\* hierarchy_layout alone, on every small directed graph and every root.
LayoutName(k) == "n" \o ToString(k)

LayoutNodeSeq == [k \in 1..LayoutNodes |-> LayoutName(k)]

\* nx.DiGraph with the nodes of LayoutNodeSeq and the edges E
DiGraphOf(E) ==
    [nodes |-> LayoutNodeSeq,
     adj |-> [a \in Range(LayoutNodeSeq) |->
                 LET IsSuccessor(b) == <<a, b>> \in E
                 IN  SelectSeq(LayoutNodeSeq, IsSuccessor)],
     attributes |-> [n \in {} |-> 0]]

\* lines 211-212
InitLayout ==
    /\ GenIdle /\ AppIdle /\ RtIdle /\ AdvIdle
    /\ lay_pc = "loop"
    /\ \E E \in SUBSET (Range(LayoutNodeSeq) \X Range(LayoutNodeSeq)) :
          /\ Cardinality(E) <= LayoutMaxEdges
          /\ lay_G = DiGraphOf(E)
    /\ lay_root \in Range(LayoutNodeSeq)
    /\ lay_levels = (lay_root :> 0)
    /\ lay_order = <<lay_root>>
    /\ lay_queue = <<lay_root>>
    /\ lay_pos = [n \in {} |-> 0]
    /\ lay_iters = 0

\* lines 213-218, one iteration
LayVisit ==
    /\ lay_pc = "loop"
    /\ lay_queue # <<>>
    /\ LET v  == Head(lay_queue)
           st == VisitChildren([levels |-> lay_levels, order |-> lay_order,
                                queue |-> Tail(lay_queue)],
                               v, successors(lay_G, v))
       IN  /\ lay_levels' = st.levels
           /\ lay_order' = st.order
           /\ lay_queue' = st.queue
    /\ lay_iters' = lay_iters + 1
    /\ UNCHANGED <<lay_pc, lay_G, lay_root, lay_pos, genVars, appVars, rtVars, advVars>>

\* lines 220-229: the queue is empty
LayPlace ==
    /\ lay_pc = "loop"
    /\ lay_queue = <<>>
    /\ lay_pos' = PlaceNodes(lay_levels, lay_order)
    /\ lay_pc' = "done"
    /\ UNCHANGED <<lay_G, lay_root, lay_levels, lay_order, lay_queue, lay_iters,
                   genVars, appVars, rtVars, advVars>>

NextLayout == LayVisit \/ LayPlace

SpecLayout == InitLayout /\ [][NextLayout]_vars

-----------------------------------------------------------------------------
(* Claims about hierarchy_layout *)

RECURSIVE Within(_, _, _)
\* the nodes at most k edges away from root
Within(G, root, k) ==
    IF k = 0 THEN {root}
    ELSE LET near == Within(G, root, k - 1)
         IN  near \cup {n \in NodeSet(G) : \E p \in near : has_edge(G, p, n)}

ReachableFrom(G, root) == Within(G, root, Len(G.nodes))

Distance(G, root, n) ==
    CHOOSE k \in 0..Len(G.nodes) :
        /\ n \in Within(G, root, k)
        /\ \A j \in 0..(k - 1) : n \notin Within(G, root, j)

LayoutResultOk ==
    /\ DOMAIN lay_pos = ReachableFrom(lay_G, lay_root)
    /\ lay_pos[lay_root].y = 0
    /\ \A n \in DOMAIN lay_pos :
          /\ lay_pos[n].y = 0 - 1300 * Distance(lay_G, lay_root, n)
          /\ n # lay_root =>
                \E p \in DOMAIN lay_pos :
                    has_edge(lay_G, p, n) /\ lay_pos[p].y = lay_pos[n].y + 1300

\* C9: on every finite directed graph, cycles included, hierarchy_layout ends
\* (no node is dequeued twice, and the loop is never stuck), returns positions
\* for exactly the nodes reachable from root, each on the layer of its
\* shortest distance from root (root on layer 0, every other node below a
\* predecessor one layer up), and leaves the graph as it was.
C9_Layout ==
    /\ [](/\ lay_iters <= Len(lay_G.nodes)
          /\ lay_pc = "loop" => ENABLED NextLayout
          /\ lay_pc = "done" => LayoutResultOk)
    /\ [][lay_G' = lay_G /\ lay_root' = lay_root]_vars

\* a cycle that does not pass through the root, and a node two layers down
C9_Witness ==
    /\ lay_pc = "done"
    /\ \E a, b \in DOMAIN lay_pos :
          /\ a # lay_root /\ b # lay_root /\ a # b
          /\ has_edge(lay_G, a, b) /\ has_edge(lay_G, b, a)
          /\ lay_pos[b].y = 0 - 2600

-----------------------------------------------------------------------------
(* Claims about generate_story *)

\* C6: every graph generate_story returns has the node "start", with no
\* incoming edge and with between 3 and 6 successors.
C6_StartIsRoot ==
    gen_pc = "done" =>
        /\ "start" \in NodeSet(gen_G)
        /\ InDegree(gen_G, "start") = 0
        /\ OutDegree(gen_G, "start") >= MinBranches
        /\ OutDegree(gen_G, "start") <= MaxBranches

\* a returned graph with six branches and a cross-link
C6_Witness ==
    /\ gen_pc = "done"
    /\ OutDegree(gen_G, "start") = MaxBranches
    /\ EdgeCount(gen_G) > EdgeCount(gen_tree)

\* what one cross-link attempt did to the graph
LinkStep == gen_pc = "links" /\ gen_attempts' = gen_attempts + 1

AddedBy(G, H) == EdgeSet(H) \ EdgeSet(G)

LinkStepCommon ==
    /\ EdgeSet(gen_G) \subseteq EdgeSet(gen_G')
    /\ gen_G'.nodes = gen_G.nodes
    /\ Cardinality(AddedBy(gen_G, gen_G')) <= 1
    /\ \A e \in AddedBy(gen_G, gen_G') :
          e[1] # e[2] /\ e[1] # "start" /\ e[2] # "start"

LinkCountsOk ==
    /\ gen_pc \in {"links", "done"} =>
          /\ gen_links >= MinLinks /\ gen_links <= MaxLinks
          /\ gen_attempts <= gen_links
          /\ EdgeCount(gen_G) - EdgeCount(gen_tree) >= 0
          /\ EdgeCount(gen_G) - EdgeCount(gen_tree) <= gen_attempts
    /\ gen_pc = "done" => gen_attempts = gen_links

\* C10 as stated: between 3 and 6 attempts, each adding at most one edge and
\* removing none; an added edge is no self-loop, does not touch "start", and
\* joins two nodes that no edge connected before, in either direction.
C10_Original ==
    /\ []LinkCountsOk
    /\ [][LinkStep =>
            /\ LinkStepCommon
            /\ \A e \in AddedBy(gen_G, gen_G') :
                  ~has_edge(gen_G, e[1], e[2]) /\ ~has_edge(gen_G, e[2], e[1])]_vars

\* C10 as amended: the same, except that only an edge in the same direction
\* excludes a pair; the reverse edge may be there (the attempt then closes a
\* two-node cycle).
C10_CrossLinks ==
    /\ []LinkCountsOk
    /\ [][LinkStep =>
            /\ LinkStepCommon
            /\ \A e \in AddedBy(gen_G, gen_G') : ~has_edge(gen_G, e[1], e[2])]_vars

\* all six attempts made, one of them added an edge, the others were skipped
C10_Witness ==
    /\ gen_pc = "done"
    /\ gen_attempts = MaxLinks
    /\ EdgeCount(gen_G) = EdgeCount(gen_tree) + 1

====
